---- MODULE Spec2Model ----
(***************************************************************************)
(* Lot-sizing auto grader (auto_grader_assignment1.py) and the reference   *)
(* solution it grades (fom2425hw1.py).                                     *)
(*                                                                         *)
(* Number representation.  TLA+ has integers only, so every Python float   *)
(* is carried as a scaled integer, the scale fixed per kind of value:      *)
(*   quantities (kg)            in half-kg        (5.5 kg   -> 11)         *)
(*   money / objective (EUR)    in quarter-EUR    (337.5    -> 1350)       *)
(*   production cost (EUR/kg)   in quarter-EUR per half-kg (0.5 -> 1)      *)
(*   test credit (points)       in half-points    (0.5      -> 1)          *)
(*   pylint note (static score) in hundredths     (1.25     -> 125)        *)
(*   grade                      in tenths         (5.6      -> 56)         *)
(***************************************************************************)
EXTENDS Integers, Sequences, FiniteSets, TLC

VARIABLES
  \* grade_submissions
  pc, listing, files, df_res, file_nr, test_nr, group_module,
  static_score, dynamic_score, log, persisted,
  \* one call of unit_test
  ut_arg, ut_res,
  \* one evaluation of the grade expression
  gr_arg, gr_res,
  \* one call of lsp1 / lsp2 / lsp3
  lsp_fn, args, per, x2, cost, x1, lsp_pc, lsp_status, lsp_ret

batch_vars == <<pc, listing, files, df_res, file_nr, test_nr, group_module,
                static_score, dynamic_score, log, persisted>>
ut_vars == <<ut_arg, ut_res>>
gr_vars == <<gr_arg, gr_res>>
lsp_vars == <<lsp_fn, args, per, x2, cost, x1, lsp_pc, lsp_status, lsp_ret>>
vars == <<batch_vars, ut_vars, gr_vars, lsp_vars>>

(***************************************************************************)
(* Bounds of the model.                                                    *)
(***************************************************************************)
\* directory listings hold at most MaxFiles entries besides the padding
MaxFiles == 2
\* objective values tried by unit_test lie within MaxDelta quarter-EUR of
\* the window [E, E+1] around each expected objective E
MaxDelta == 3
\* static scores tried by the grade expression: 1.25 * k for k in 0..MaxStaticStep
MaxStaticStep == 8
\* the solver search keeps candidates costing less than E + 1 EUR plus
\* CutoffSlack quarter-EUR
CutoffSlack == 0

(***************************************************************************)
(* Program constants.                                                      *)
(***************************************************************************)
NR_TESTS == 3
BIG_M == 100000
\* "RESULTS"
HOMEWORK == <<82, 69, 83, 85, 76, 84, 83>>

(***************************************************************************)
(* Python values.  One record shape for all of them, so that any two can   *)
(* be compared: t is the type, n the (scaled) number, items the elements   *)
(* of a sequence type, s the text of a str.                                *)
(***************************************************************************)
Num(q) == [t |-> "num", n |-> q, items |-> <<>>, s |-> ""]
NoneVal == [t |-> "NoneType", n |-> 0, items |-> <<>>, s |-> ""]
Str(x) == [t |-> "str", n |-> 0, items |-> <<>>, s |-> x]
List(xs) == [t |-> "list", n |-> 0, items |-> xs, s |-> ""]
Tuple(xs) == [t |-> "tuple", n |-> 0, items |-> xs, s |-> ""]
NdArray(xs) == [t |-> "ndarray", n |-> 0, items |-> xs, s |-> ""]

\* an exception instance: its class name and its constructor arguments
Exc(type, a) == [type |-> type, args |-> a]
NoExc == Exc("", <<>>)

\* str(exception): '' without arguments, the argument's text with one
PyStrExc(e) == IF Len(e.args) = 0 THEN "" ELSE e.args[1]

\* int(v) of a float carried in quarter-EUR: truncation toward zero
PyIntRound(v) == (v.n + 2) \div 4
PyInt(v) == IF v.n >= 0 THEN v.n \div 4 ELSE -((-v.n) \div 4)

\* int(v) raises TypeError / ValueError unless v is a number
PyIntRaises(v) == v.t # "num"

\* bool(a == b) for b a list: raises for an ndarray of more than one element
\* (the element-wise result has no truth value)
PyEqRaises(a, b) == a.t = "ndarray" /\ Len(a.items) > 1 /\ Len(a.items) = Len(b.items)

\* a == b for b a list: lists compare element-wise, any other type is unequal
PyEq(a, b) == a.t = "list" /\ b.t = "list" /\ a.items = b.items

(***************************************************************************)
(* The outcome of calling an entry point of a submission.                  *)
(*   kind  "raise": the call (or the attribute lookup) raised exc          *)
(*         "return": it returned; shape "pair" when the value unpacks into *)
(*                   exactly two targets (obj, setups), "other" when the   *)
(*                   unpacking itself raises                               *)
(***************************************************************************)
Raised(e) == [kind |-> "raise", exc |-> e, shape |-> "other", obj |-> NoneVal, setups |-> NoneVal]
Returned(o, s) == [kind |-> "return", exc |-> NoExc, shape |-> "pair", obj |-> o, setups |-> s]
ReturnedOther == [kind |-> "return", exc |-> NoExc, shape |-> "other", obj |-> NoneVal, setups |-> NoneVal]

(***************************************************************************)
(* unit_test: the three fixed test cases.                                  *)
(***************************************************************************)
corr_obj_val(nr) == CASE nr = 0 -> 330 [] nr = 1 -> 261 [] nr = 2 -> 461

corr_setups(nr) ==
  CASE nr = 0 -> <<0, 1, 0, 1, 1, 0, 0>>
    [] nr = 1 -> <<1, 0, 1, 0, 1, 0, 0>>
    [] nr = 2 -> <<0, 1, 2, 1, 0, 2, 0>>

\* the value of a unit_test call: (points, obj_val, setups, error)
UtResult(p, o, s, e) == [points |-> p, obj_val |-> o, setups |-> s, error |-> e]

\* unit_test whose except branch returns the points accumulated so far
unit_test_keep_points(test_module, nr) ==
  LET r == test_module[nr + 1]
      m1 == IF ~PyIntRaises(r.obj) /\ PyInt(r.obj) = corr_obj_val(nr) THEN 1 ELSE 0
      m2 == IF PyEq(r.setups, List(corr_setups(nr))) THEN 1 ELSE 0
  IN IF r.kind = "raise"
       THEN UtResult(0, Num(0), List(<<>>), Str(PyStrExc(r.exc)))
     ELSE IF r.shape # "pair"
       THEN UtResult(0, Num(0), List(<<>>), Str("cannot unpack"))
     ELSE IF PyIntRaises(r.obj)
       THEN UtResult(0, r.obj, r.setups, Str("int() argument must be a real number"))
     ELSE IF PyEqRaises(r.setups, List(corr_setups(nr)))
       THEN UtResult(m1, r.obj, r.setups, Str("truth value of an array is ambiguous"))
     ELSE UtResult(m1 + m2, r.obj, r.setups, NoneVal)

unit_test(test_module, nr) ==
  LET r == test_module[nr + 1]   \* test_module.lsp1 / lsp2 / lsp3 (...)
      m1 == IF ~PyIntRaises(r.obj) /\ PyInt(r.obj) = corr_obj_val(nr) THEN 1 ELSE 0
      m2 == IF PyEq(r.setups, List(corr_setups(nr))) THEN 1 ELSE 0
  IN IF r.kind = "raise"
       \* raised inside the call: obj_val, setups still hold 0 and []
       THEN UtResult(0, Num(0), List(<<>>), Str(PyStrExc(r.exc)))
     ELSE IF r.shape # "pair"
       \* the unpacking raised before either target was bound
       THEN UtResult(0, Num(0), List(<<>>), Str("cannot unpack"))
     ELSE IF PyIntRaises(r.obj)
       THEN UtResult(0, r.obj, r.setups, Str("int() argument must be a real number"))
     ELSE IF PyEqRaises(r.setups, List(corr_setups(nr)))
       THEN UtResult(0, r.obj, r.setups, Str("truth value of an array is ambiguous"))
     ELSE UtResult(m1 + m2, r.obj, r.setups, NoneVal)

(***************************************************************************)
(* The grade expression                                                    *)
(*   round(0.2*static_score + 8*(dynamic_score/NR_TESTS), 1)               *)
(* with static in hundredths and dynamic in half-points: the exact value   *)
(* in tenths is (3*static + 2000*dynamic) / (50*NR_TESTS).  Python rounds  *)
(* the double it computed to the nearest tenth, an exact tie going to the  *)
(* even tenth.  On the static scores used here (-1, 8 and the multiples of *)
(* 1.25) the double equals the exact value wherever that value is a tie    *)
(* (0.2*1.25k = 0.25k and dynamic/3 in {0, 0.5, 1} are exact binary        *)
(* fractions), and elsewhere the double's error is far smaller than its    *)
(* distance to a tie, so rounding the exact value agrees with Python.      *)
(***************************************************************************)
GradeNum(static, dynamic) == 3 * static + 2000 * dynamic
GradeDen == 50 * NR_TESTS

\* round(n/d, 0) half to even, d > 0
RoundHalfEven(n, d) ==
  LET q == n \div d
      r == n % d
  IN IF 2 * r > d THEN q + 1
     ELSE IF 2 * r < d THEN q
     ELSE IF q % 2 = 0 THEN q ELSE q + 1

\* round half up (toward +infinity on a tie)
RoundHalfUp(n, d) == (2 * n + d) \div (2 * d)

Grade(static, dynamic) == RoundHalfEven(GradeNum(static, dynamic), GradeDen)

(***************************************************************************)
(* Variables of the parts a specification does not exercise stay at these  *)
(* values.                                                                 *)
(***************************************************************************)
BatchIdle ==
  /\ pc = "idle" /\ listing = <<>> /\ files = <<>> /\ df_res = <<>>
  /\ file_nr = 0 /\ test_nr = 0 /\ group_module = <<>>
  /\ static_score = 0 /\ dynamic_score = 0 /\ log = <<>> /\ persisted = 0

UtIdle == ut_arg = <<>> /\ ut_res = <<>>

GrIdle == gr_arg = <<>> /\ gr_res = <<>>

LspIdle ==
  /\ lsp_fn = 0 /\ args = <<>> /\ per = 0 /\ x2 = <<>> /\ cost = 0 /\ x1 = <<>>
  /\ lsp_pc = "idle" /\ lsp_status = 0 /\ lsp_ret = <<>>

(***************************************************************************)
(* SpecUnit: one call unit_test(test_module, test_nr), over a bounded set  *)
(* of behaviours of the entry point under test.                            *)
(***************************************************************************)
Zeros(n) == [i \in 1..n |-> 0]

\* objective values (quarter-EUR) an entry point may return for test nr
ObjValues(nr) ==
  {4 * corr_obj_val(nr) + d : d \in (0 - MaxDelta)..(4 + MaxDelta)} \cup {-12, -4, -2, 0, 4}

SetupValues(nr) ==
  { List(corr_setups(nr)), List(Zeros(7)), List(<<>>), Tuple(corr_setups(nr)),
    NdArray(corr_setups(nr)), NdArray(Zeros(7)) }

EntryOutcomes(nr) ==
  { Raised(Exc("ValueError", <<>>)), Raised(Exc("RuntimeError", <<"solver failed">>)),
    ReturnedOther }
  \cup { Returned(o, s) : o \in {Num(q) : q \in ObjValues(nr)} \cup {NoneVal, Str("n/a")},
                          s \in SetupValues(nr) }

\* a module that defines only the entry point of test nr, behaving as r
ModuleWith(nr, r) ==
  [k \in 1..NR_TESTS |->
     IF k = nr + 1 THEN r ELSE Raised(Exc("AttributeError", <<"module has no attribute">>))]

UtInit ==
  /\ \E nr \in 0..(NR_TESTS - 1) : \E r \in EntryOutcomes(nr) :
       ut_arg = <<[test_nr |-> nr, test_module |-> ModuleWith(nr, r)]>>
  /\ ut_res = <<>>
  /\ BatchIdle /\ GrIdle /\ LspIdle

UtCall ==
  /\ ut_res = <<>>
  /\ ut_res' = <<unit_test(ut_arg[1].test_module, ut_arg[1].test_nr)>>
  /\ UNCHANGED <<ut_arg, batch_vars, gr_vars, lsp_vars>>

SpecUnit == UtInit /\ [][UtCall]_vars

\* the behaviour of the entry point under test, and the call's result
ut_r == ut_arg[1].test_module[ut_arg[1].test_nr + 1]
ut_out == ut_res[1]

C10_CheckRaises ==
  ut_res # <<>> =>
    /\ (ut_r.kind = "return" /\ ut_r.shape = "pair"
          /\ (ut_r.obj.t # "num" \/ ut_r.setups.t = "ndarray"))
       => /\ ut_out.points = 0
          /\ ut_out.obj_val = ut_r.obj
          /\ ut_out.setups = ut_r.setups
          /\ ut_out.error.t = "str"
    /\ (ut_out.error.t = "str" /\ ut_out.obj_val = Num(0) /\ ut_out.setups = List(<<>>))
       => (ut_r.kind = "raise" \/ ut_r.shape # "pair")

\* the objective matched (0.5 earned), then the setups comparison raised
C10_Witness ==
  /\ ut_res # <<>> /\ ut_r.kind = "return" /\ ut_r.shape = "pair"
  /\ ut_r.obj = Num(4 * corr_obj_val(ut_arg[1].test_nr))
  /\ ut_r.setups.t = "ndarray"
  /\ ut_out.points = 0 /\ ut_out.obj_val = ut_r.obj /\ ut_out.error.t = "str"

(***************************************************************************)
(* SpecGrade: one evaluation of the grade expression.                      *)
(***************************************************************************)
\* -1 (sentinel), 8.0 and the multiples of 1.25
StaticScores == {-100, 800} \cup {125 * k : k \in 0..MaxStaticStep}

GrInit ==
  /\ \E s \in StaticScores : \E d \in 0..(2 * NR_TESTS) :
       gr_arg = <<[static_score |-> s, dynamic_score |-> d]>>
  /\ gr_res = <<>>
  /\ BatchIdle /\ UtIdle /\ LspIdle

GrCall ==
  /\ gr_res = <<>>
  /\ gr_res' = <<Grade(gr_arg[1].static_score, gr_arg[1].dynamic_score)>>
  /\ UNCHANGED <<gr_arg, batch_vars, ut_vars, lsp_vars>>

SpecGrade == GrInit /\ [][GrCall]_vars

\* C3: the grade is the exact value 0.2*static + 8*dynamic/NR_TESTS rounded
\* half up to one decimal (and 8.0 with 1.5 gives 5.6).
C3_GradeHalfUp ==
  gr_res # <<>> =>
    /\ gr_res[1] = RoundHalfUp(GradeNum(gr_arg[1].static_score, gr_arg[1].dynamic_score),
                               GradeDen)
    /\ (gr_arg[1].static_score = 800 /\ gr_arg[1].dynamic_score = 3) => gr_res[1] = 56

(***************************************************************************)
(* SpecLsp: one call of lsp1, lsp2 or lsp3 of the reference solution with  *)
(* the arguments unit_test passes.  The function builds a mixed-integer    *)
(* model and hands it to the solver; the solver's search is modelled as    *)
(* the period-by-period construction of every assignment of the model's    *)
(* variables that satisfies its constraints (a candidate), the objective   *)
(* accumulating along the way.  All data are multiples of half a kg and    *)
(* the constraints form a network-flow matrix once the binaries are fixed, *)
(* so an optimal solution exists on the half-kg grid.  The `model is None` *)
(* fallback of each function is dead code (model was just constructed).    *)
(***************************************************************************)
\* the arguments of test nr: holding cost h and setup cost K in EUR,
\* cost_p in quarter-EUR per half-kg, quantities in half-kg
lsp_args(nr) ==
  CASE nr = 0 -> [cost_h |-> 2, cost_k |-> 50, cost_p |-> <<2, 4, 4, 3, 2, 1, 2>>,
                  init_inv |-> <<50>>,
                  requirements |-> << <<40>>, <<50>>, <<28>>, <<40>>, <<30>>, <<11>>, <<5>> >>]
    [] nr = 1 -> [cost_h |-> 2, cost_k |-> 50, cost_p |-> <<0, 0, 0, 0, 0, 0, 0>>,
                  init_inv |-> <<10>>,
                  requirements |-> << <<40>>, <<50>>, <<28>>, <<40>>, <<30>>, <<11>>, <<5>> >>]
    [] nr = 2 -> [cost_h |-> 2, cost_k |-> 50, cost_p |-> <<0, 0, 0, 0, 0, 0, 0>>,
                  init_inv |-> <<50, 50>>,
                  requirements |-> << <<40, 10>>, <<50, 20>>, <<28, 42>>, <<40, 40>>,
                                      <<30, 15>>, <<11, 22>>, <<5, 26>> >>]

nr_periods == Len(args.requirements)
nr_products == Len(args.init_inv)

\* holding cost of one half-kg for one period, setup cost, in quarter-EUR
HoldQ == 2 * args.cost_h
SetupQ == 4 * args.cost_k

\* status codes model.status can take; 1 is "Optimal"
PulpStatus == {-3, -2, -1, 0, 1}

\* the search drops a partial candidate once its cost cannot stay below this
Cutoff == 4 * (corr_obj_val(lsp_fn - 1) + 1) + CutoffSlack

SumSeq(q) == IF Len(q) = 1 THEN q[1] ELSE q[1] + q[2]

\* lsp2: x1[i] == 0 for odd i and for the last period, x1[i] == 1 otherwise
\* (i counts from 0)
lsp2_fixed_setup(i) == IF i % 2 = 1 \/ i = nr_periods - 1 THEN 0 ELSE 1

\* the setup constraints on period i (from 0) for the binaries b:
\* lsp2 fixes x1[i]; lsp3 has x1_p1[i] + x1_p2[i] <= 1
setup_constraints(i, b) ==
  /\ lsp_fn = 2 => b[1] = lsp2_fixed_setup(i)
  /\ lsp_fn = 3 => b[1] + b[2] <= 1

\* the objective's terms of period i: holding, setups, production
\* (only lsp1 has production costs)
objective_term(i, b, y, inv) ==
  HoldQ * SumSeq(inv) + SetupQ * SumSeq(b)
    + (IF lsp_fn = 1 THEN args.cost_p[i + 1] * y[1] ELSE 0)

\* what the stock of product k left at the end of period i (from 0) still
\* costs to hold, at least: only the later requirements can draw it down
\* (x2[u] >= x2[u-1] - requirements[u] because y[u] >= 0)
RECURSIVE FutureHolding(_, _, _)
FutureHolding(i, k, stock) ==
  IF i + 1 >= nr_periods THEN 0
  ELSE LET rest == stock - args.requirements[i + 2][k]
       IN IF rest <= 0 THEN 0 ELSE HoldQ * rest + FutureHolding(i + 1, k, rest)

RECURSIVE LaterDemand(_, _)
LaterDemand(i, k) ==
  IF i + 1 >= nr_periods THEN 0 ELSE args.requirements[i + 2][k] + LaterDemand(i + 1, k)

\* a lower bound on what product k costs after period i: holding the stock
\* on hand, and one setup if the stock does not cover the later
\* requirements (y[u] > 0 needs x1[u] = 1)
RestCost(i, k, stock) ==
  FutureHolding(i, k, stock) + (IF LaterDemand(i, k) > stock THEN SetupQ ELSE 0)

\* a lower bound on the cost of the periods after i
LowerBound(i, inv) ==
  IF nr_products = 1 THEN RestCost(i, 1, inv[1])
  ELSE RestCost(i, 1, inv[1]) + RestCost(i, 2, inv[2])

\* x1 is binary: the setup vectors of one period
Binaries == IF nr_products = 1 THEN {<<0>>, <<1>>} ELSE {<<0, 0>>, <<1, 0>>, <<0, 1>>, <<1, 1>>}

\* the largest stock n with w*n + (holding n through the periods after u-1,
\* as FutureHolding counts it) <= budget; cum is the requirement of product
\* k from the period after i up to u-1.  Holding n for j more periods costs
\* at least HoldQ * (j*n - the requirements drawn meanwhile), for every j.
RECURSIVE StockCap(_, _, _, _, _)
StockCap(u, k, w, budget, cum) ==
  LET here == budget \div w
  IN IF u >= nr_periods THEN here
     ELSE LET drawn == cum + args.requirements[u + 1][k]
              later == StockCap(u + 1, k, w + HoldQ, budget + HoldQ * drawn, drawn)
          IN IF here < later THEN here ELSE later

\* the ending inventories product k can take in period i under the
\* binaries b: without a setup y = 0 fixes it to base[k]; with one, any
\* value from there on that the cutoff guard of SolverStep can still
\* accept: below the later requirements a further setup is due, so the
\* budget is smaller there
EndInventories(i, b, base, k) ==
  IF b[k] = 0 THEN {base[k]}
  ELSE LET p == IF lsp_fn = 1 THEN args.cost_p[i + 1] ELSE 0
           j == 3 - k
           others == IF nr_products = 1 THEN 0 ELSE HoldQ * base[j] + RestCost(i, j, base[j])
           budget == Cutoff - 1 - cost - SetupQ * SumSeq(b) - others + p * base[k]
           lo == IF base[k] < 0 THEN 0 ELSE base[k]
           covered == LaterDemand(i, k)
           short == StockCap(i + 1, k, HoldQ + p, budget - SetupQ, 0)
       IN (lo..(IF short < covered THEN short ELSE covered - 1))
            \cup ((IF lo < covered THEN covered ELSE lo)..StockCap(i + 1, k, HoldQ + p, budget, 0))

\* the solver fixes the variables of the next period
SolverStep ==
  /\ lsp_pc = "solve"
  /\ per < nr_periods
  /\ LET i == per
         req == args.requirements[i + 1]
         \* ending inventory without production: x2[i-1] - requirements[i]
         base == [k \in 1..nr_products |-> x2[k] - req[k]]
     IN \E b \in Binaries :
          /\ setup_constraints(i, b)
          /\ \E inv \in IF nr_products = 1
                          THEN {<<n>> : n \in EndInventories(i, b, base, 1)}
                          ELSE {<<n, m>> : n \in EndInventories(i, b, base, 1),
                                           m \in EndInventories(i, b, base, 2)} :
               LET y == [k \in 1..nr_products |-> inv[k] - base[k]]
                   c == cost + objective_term(i, b, y, inv)
               IN \* x2[i] == x2[i-1] + y[i] - requirements[i], x2[i] >= 0,
                  \* 0 <= y[i] <= BIG_M * x1[i]
                  /\ \A k \in 1..nr_products :
                       inv[k] >= 0 /\ y[k] >= 0 /\ y[k] <= 2 * BIG_M * b[k]
                  /\ c + LowerBound(i, inv) < Cutoff
                  /\ x2' = inv
                  /\ cost' = c
                  /\ x1' = Append(x1, b)
  /\ per' = per + 1
  /\ UNCHANGED <<lsp_fn, args, lsp_pc, lsp_status, lsp_ret, batch_vars, ut_vars, gr_vars>>

\* setups[i] as the function reads it from the solution
decode_p2_first(b) == IF lsp_fn < 3 THEN b[1] ELSE IF b[2] = 1 THEN 1 ELSE IF b[1] = 1 THEN 2 ELSE 0
decode(b) == IF lsp_fn < 3 THEN b[1] ELSE IF b[1] = 1 THEN 1 ELSE IF b[2] = 1 THEN 2 ELSE 0

\* the return after a non-optimal status, with obj_val in the first slot
status_return_obj_val(status) == Returned(Num(0), List(Zeros(nr_periods)))
status_return(status) == Returned(Num(4 * status), List(Zeros(nr_periods)))

\* model.solve(...) is over: either the solver has a solution (a complete
\* candidate) or it has none; the function returns
lsp_return(status) ==
  /\ lsp_pc = "solve"
  /\ status \in PulpStatus
  /\ per = nr_periods \/ (per = 0 /\ status # 1)
  /\ lsp_status' = status
  /\ lsp_ret' = <<IF status # 1
                    THEN status_return(status)
                    ELSE Returned(Num(cost), List([i \in 1..nr_periods |-> decode(x1[i])]))>>
  /\ lsp_pc' = "returned"
  /\ UNCHANGED <<lsp_fn, args, per, x2, cost, x1, batch_vars, ut_vars, gr_vars>>

LspInit ==
  /\ lsp_fn \in 1..NR_TESTS
  /\ args = lsp_args(lsp_fn - 1)
  /\ per = 0
  /\ x2 = args.init_inv
  /\ cost = 0
  /\ x1 = <<>>
  /\ lsp_pc = "solve" /\ lsp_status = 0 /\ lsp_ret = <<>>
  /\ BatchIdle /\ UtIdle /\ GrIdle

LspNext == SolverStep \/ \E status \in PulpStatus : lsp_return(status)

SpecLsp == LspInit /\ [][LspNext]_vars

\* C6: the reference solution earns full credit on each test: no solution
\* of the model it builds costs less than the expected objective E, and
\* every solution costing less than E + 1 - the minimum among them - has
\* the expected setups, so the pair returned for it scores 1.0.
C6_ReferenceFullCredit ==
  (lsp_pc = "returned" /\ lsp_status = 1) =>
    LET nr == lsp_fn - 1
        out == unit_test(ModuleWith(nr, lsp_ret[1]), nr)
    IN /\ cost >= 4 * corr_obj_val(nr)
       /\ cost < 4 * (corr_obj_val(nr) + 1) => out.points = 2

\* lsp3 returned a solution of cost exactly 461 with the expected setups
C6_Witness ==
  /\ lsp_pc = "returned" /\ lsp_status = 1 /\ lsp_fn = 3
  /\ lsp_ret[1] = Returned(Num(4 * 461), List(<<0, 1, 2, 1, 0, 2, 0>>))

\* the same for lsp1 (330) and lsp2 (261)
C6_Witness_lsp1 ==
  /\ lsp_pc = "returned" /\ lsp_status = 1 /\ lsp_fn = 1
  /\ lsp_ret[1] = Returned(Num(4 * 330), List(<<0, 1, 0, 1, 1, 0, 0>>))

C6_Witness_lsp2 ==
  /\ lsp_pc = "returned" /\ lsp_status = 1 /\ lsp_fn = 2
  /\ lsp_ret[1] = Returned(Num(4 * 261), List(<<1, 0, 1, 0, 1, 0, 0>>))

\* C9: after a non-optimal status each function returns, without raising,
\* the status code in the objective slot and nr_periods zeros as setups,
\* whatever setup decisions the model holds.
C9_StatusReturn ==
  (lsp_pc = "returned" /\ lsp_status # 1) =>
    /\ lsp_ret[1].kind = "return" /\ lsp_ret[1].shape = "pair"
    /\ lsp_ret[1].obj = Num(4 * lsp_status)
    /\ lsp_ret[1].setups = List(Zeros(Len(lsp_args(lsp_fn - 1).requirements)))

\* the model held a solution with setups; the return shows none of them
C9_Witness ==
  /\ lsp_pc = "returned" /\ lsp_status = -1 /\ per = 7
  /\ \E i \in 1..Len(x1) : x1[i][1] = 1
  /\ lsp_ret[1] = Returned(Num(-4), List(<<0, 0, 0, 0, 0, 0, 0>>))

(***************************************************************************)
(* Spec: one run of grade_submissions over a directory.  File names are    *)
(* Python strings, carried as sequences of character codes so that         *)
(* endswith, splitext, split and the sort order are those of Python.       *)
(***************************************************************************)
\* a.endswith(suffix)
EndsWith(a, suffix) ==
  /\ Len(a) >= Len(suffix)
  /\ SubSeq(a, Len(a) - Len(suffix) + 1, Len(a)) = suffix

\* the position of the last '.' of a (0 when there is none)
RECURSIVE LastDot(_, _)
LastDot(a, n) == IF n = 0 THEN 0 ELSE IF a[n] = 46 THEN n ELSE LastDot(a, n - 1)

\* os.path.splitext(a)[0]: a up to its last dot; leading dots are no extension
SplitExt0(a) ==
  LET d == LastDot(a, Len(a))
  IN IF d = 0 \/ (\A j \in 1..d : a[j] = 46) THEN a ELSE SubSeq(a, 1, d - 1)

\* a.split("_")
RECURSIVE Split(_, _, _)
Split(a, n, token) ==
  IF n > Len(a) THEN <<token>>
  ELSE IF a[n] = 95 THEN <<token>> \o Split(a, n + 1, <<>>)
  ELSE Split(a, n + 1, Append(token, a[n]))

\* a < b for two str: by code point, a proper prefix first
RECURSIVE StrLess(_, _)
StrLess(a, b) ==
  IF b = <<>> THEN FALSE
  ELSE IF a = <<>> THEN TRUE
  ELSE IF a[1] # b[1] THEN a[1] < b[1]
  ELSE StrLess(Tail(a), Tail(b))

\* list.sort(reverse=False)
RECURSIVE Insert(_, _)
Insert(sorted, a) ==
  IF sorted = <<>> THEN <<a>>
  ELSE IF StrLess(a, sorted[1]) THEN <<a>> \o sorted
  ELSE <<sorted[1]>> \o Insert(Tail(sorted), a)

RECURSIVE Sort(_)
Sort(q) == IF q = <<>> THEN <<>> ELSE Insert(Sort(SubSeq(q, 1, Len(q) - 1)), q[Len(q)])

\* ".py", "auto_grader_"
DotPy == <<46, 112, 121>>
AutoGrader == <<97, 117, 116, 111, 95, 103, 114, 97, 100, 101, 114, 95>>

\* the file the harness itself is stored in: "auto_grader_assignment1.py"
HarnessFile ==
  <<97, 117, 116, 111, 95, 103, 114, 97, 100, 101, 114, 95,
    97, 115, 115, 105, 103, 110, 109, 101, 110, 116, 49, 46, 112, 121>>

\* the loop over os.listdir() and files.sort()
discover(names) ==
  LET keep(f) == EndsWith(f, DotPy) /\ f # AutoGrader \o HOMEWORK \o DotPy
      RECURSIVE Stems(_)
      Stems(n) == IF n = 0 THEN <<>>
                  ELSE IF keep(names[n]) THEN Append(Stems(n - 1), SplitExt0(names[n]))
                  ELSE Stems(n - 1)
  IN Sort(Stems(Len(names)))

(***************************************************************************)
(* A file of the directory: its name and what its content makes the calls  *)
(* on it do.  load: "ok" or "raise" (__import__); lint: the pylint note in *)
(* hundredths, or UnicodeError; lsp: the outcome of lsp1, lsp2, lsp3 on    *)
(* the test arguments.  An outcome of kind "raise" carries an instance of  *)
(* (a subclass of) Exception.                                              *)
(***************************************************************************)
File(name, load, lint, lsp) == [name |-> name, load |-> load, lint |-> lint, lsp |-> lsp]
Note(n) == [kind |-> "note", note |-> n]
LintUnicodeError == [kind |-> "UnicodeError", note |-> 0]

\* what the reference solution returns (C6)
RefOutcome(nr) == Returned(Num(4 * corr_obj_val(nr)), List(corr_setups(nr)))
RefModule == [k \in 1..NR_TESTS |-> RefOutcome(k - 1)]
NoEntryPoints ==
  [k \in 1..NR_TESTS |-> Raised(Exc("AttributeError", <<"module has no attribute">>))]

\* "fom2425hw1.py"
RefFile ==
  File(<<102, 111, 109, 50, 52, 50, 53, 104, 119, 49>> \o DotPy, "ok", Note(875), RefModule)
\* the harness's own file, imported as a module: it defines no entry point
HarnessAsFile == File(HarnessFile, "ok", Note(750), NoEntryPoints)
\* "auto_grader_RESULTS.py"
ResultsNamedFile == File(AutoGrader \o HOMEWORK \o DotPy, "ok", Note(1000), RefModule)
\* "g11_1_2.py": lsp1 raises ValueError(), lsp2 is 0.5 EUR off with no
\* setups, lsp3 returns status -1 with the right setups
Group11File ==
  File(<<103, 49, 49, 95, 49, 95, 50>> \o DotPy, "ok", Note(125),
       << Raised(Exc("ValueError", <<>>)),
          Returned(Num(4 * corr_obj_val(1) + 2), List(Zeros(7))),
          Returned(Num(-4), List(corr_setups(2))) >>)
\* "g11_1_2.py" with a syntax error
Group11Broken == File(<<103, 49, 49, 95, 49, 95, 50>> \o DotPy, "raise", Note(0), NoEntryPoints)
\* "g12_1.py", not decodable by pylint: lsp1 returns an ndarray of setups,
\* lsp2 a single value, lsp3 raises RuntimeError("no solution")
Group12File ==
  File(<<103, 49, 50, 95, 49>> \o DotPy, "ok", LintUnicodeError,
       << Returned(Num(4 * corr_obj_val(0)), NdArray(corr_setups(0))),
          ReturnedOther,
          Raised(Exc("RuntimeError", <<"no solution">>)) >>)
\* "RESULTS_results.xlsx", the previous report
ReportFile ==
  File(HOMEWORK \o <<95, 114, 101, 115, 117, 108, 116, 115, 46, 120, 108, 115, 120>>,
       "raise", Note(0), NoEntryPoints)

Files == {RefFile, HarnessAsFile, ResultsNamedFile, Group11File, Group11Broken,
          Group12File, ReportFile}

\* "g01_1_2.py" .. "g10_1_2.py": ten well-named copies of the reference
PadFile(k) ==
  File(<<103, 48 + (k \div 10), 48 + (k % 10), 95, 49, 95, 50>> \o DotPy, "ok", Note(1000), RefModule)
Padding == [k \in 1..10 |-> PadFile(11 - k)]

\* the listings of at most n files with distinct names, in any order
RECURSIVE Listings(_)
Listings(n) ==
  IF n = 0 THEN {<<>>}
  ELSE LET shorter == Listings(n - 1)
       IN shorter \cup
          {Append(q, f) : <<q, f>> \in
             {qf \in shorter \X Files : \A j \in 1..Len(qf[1]) : qf[1][j].name # qf[2].name}}

Directories == Listings(MaxFiles) \cup {q \o Padding : q \in Listings(MaxFiles)}

\* the file __import__(stem) and pylint find
FileOf(stem) == CHOOSE f \in {listing[j] : j \in 1..Len(listing)} : f.name = stem \o DotPy

(***************************************************************************)
(* df_res: the columns Group/ID1/ID2 exist for more than 10 files; every   *)
(* row starts with the values the columns are created with.                *)
(***************************************************************************)
NewCell == [pt |-> 0, return_0 |-> Str(""), return_1 |-> Str(""), error |-> Str("")]
NewRow(name) ==
  [FileName |-> name, Group |-> <<>>, ID1 |-> <<>>, ID2 |-> <<>>,
   Grade |-> 0, Static |-> 0, Dynamic |-> 0, U |-> [k \in 1..NR_TESTS |-> NewCell]]

Event(op, file, test) == [op |-> op, file |-> file, test |-> test]

Init ==
  /\ pc = "start"
  /\ listing \in Directories
  /\ files = <<>> /\ df_res = [group_columns |-> FALSE, rows |-> <<>>]
  /\ file_nr = 0 /\ test_nr = 0 /\ group_module = <<>>
  /\ static_score = 0 /\ dynamic_score = 0 /\ log = <<>> /\ persisted = 0
  /\ UtIdle /\ GrIdle /\ LspIdle

\* lines 57-94: discover the submissions and create the table
StartRun ==
  /\ pc = "start"
  /\ LET found == discover([j \in 1..Len(listing) |-> listing[j].name])
     IN /\ files' = found
        /\ df_res' = [group_columns |-> Len(found) > 10,
                      rows |-> [j \in 1..Len(found) |-> NewRow(found[j])]]
        /\ pc' = IF 0 < Len(found) THEN "load" ELSE "report"
  /\ file_nr' = 0
  /\ log' = Append(log, Event("listdir", 0, 0))
  /\ UNCHANGED <<listing, test_nr, group_module, static_score, dynamic_score, persisted,
                 ut_vars, gr_vars, lsp_vars>>

\* a load failure that is recorded and skipped instead of propagating
LoadSubmission_skip_failed ==
  /\ pc = "load"
  /\ LET row == file_nr + 1
         group_data == Split(files[row], 1, <<>>)
         named == [df_res EXCEPT !.rows[row].Group = group_data[1],
                                 !.rows[row].ID1 = group_data[2],
                                 !.rows[row].ID2 = group_data[3]]
     IN IF Len(files) > 10 /\ Len(group_data) < 3
          THEN /\ df_res' = [df_res EXCEPT
                               !.rows[row].Group = group_data[1],
                               !.rows[row].ID1 = IF Len(group_data) >= 2 THEN group_data[2] ELSE @]
               /\ log' = Append(log, Event("IndexError", file_nr, 0))
               /\ pc' = "crashed"
               /\ UNCHANGED <<group_module, file_nr>>
          ELSE /\ df_res' = IF Len(files) > 10 THEN named ELSE df_res
               /\ IF FileOf(files[row]).load = "ok"
                    THEN /\ group_module' = FileOf(files[row]).lsp
                         /\ log' = Append(log, Event("import", file_nr, 0))
                         /\ pc' = "lint"
                         /\ UNCHANGED file_nr
                    ELSE /\ log' = Append(log, Event("import failed", file_nr, 0))
                         /\ file_nr' = file_nr + 1
                         /\ pc' = IF file_nr + 1 < Len(files) THEN "load" ELSE "report"
                         /\ UNCHANGED group_module
  /\ UNCHANGED <<listing, files, test_nr, static_score, dynamic_score, persisted,
                 ut_vars, gr_vars, lsp_vars>>

\* lines 95-102: the loop test, the name decomposition and the import
LoadSubmission ==
  /\ pc = "load"
  /\ LET row == file_nr + 1
         group_data == Split(files[row], 1, <<>>)
         named == [df_res EXCEPT !.rows[row].Group = group_data[1],
                                 !.rows[row].ID1 = group_data[2],
                                 !.rows[row].ID2 = group_data[3]]
     IN IF Len(files) > 10 /\ Len(group_data) < 3
          \* group_data[1] or group_data[2] raises IndexError: nothing catches it
          THEN /\ df_res' = [df_res EXCEPT
                               !.rows[row].Group = group_data[1],
                               !.rows[row].ID1 = IF Len(group_data) >= 2 THEN group_data[2] ELSE @]
               /\ log' = Append(log, Event("IndexError", file_nr, 0))
               /\ pc' = "crashed"
               /\ UNCHANGED group_module
          ELSE /\ df_res' = IF Len(files) > 10 THEN named ELSE df_res
               /\ IF FileOf(files[row]).load = "ok"
                    THEN /\ group_module' = FileOf(files[row]).lsp
                         /\ log' = Append(log, Event("import", file_nr, 0))
                         /\ pc' = "lint"
                    \* __import__ raises: nothing catches it
                    ELSE /\ log' = Append(log, Event("import failed", file_nr, 0))
                         /\ pc' = "crashed"
                         /\ UNCHANGED group_module
  /\ UNCHANGED <<listing, files, file_nr, test_nr, static_score, dynamic_score, persisted,
                 ut_vars, gr_vars, lsp_vars>>

\* lines 104-113: pylint, with -1 for a UnicodeError
StaticScore ==
  /\ pc = "lint"
  /\ LET lint == FileOf(files[file_nr + 1]).lint
         note == IF lint.kind = "UnicodeError" THEN -100 ELSE lint.note
     IN /\ static_score' = note
        /\ df_res' = [df_res EXCEPT !.rows[file_nr + 1].Static = note]
  /\ dynamic_score' = 0
  /\ test_nr' = 0
  /\ log' = Append(log, Event("lint", file_nr, 0))
  /\ pc' = "test"
  /\ UNCHANGED <<listing, files, file_nr, group_module, persisted, ut_vars, gr_vars, lsp_vars>>

\* the loop body with dynamic_score = points
RunTest_overwrite ==
  /\ pc = "test"
  /\ LET r == unit_test(group_module, test_nr)
     IN /\ df_res' = [df_res EXCEPT !.rows[file_nr + 1].U[test_nr + 1] =
                        [pt |-> r.points, return_0 |-> r.obj_val,
                         return_1 |-> r.setups, error |-> r.error]]
        /\ dynamic_score' = r.points
  /\ test_nr' = test_nr + 1
  /\ log' = Append(log, Event("unit_test", file_nr, test_nr))
  /\ pc' = IF test_nr + 1 < NR_TESTS THEN "test" ELSE "finish"
  /\ UNCHANGED <<listing, files, file_nr, group_module, static_score, persisted,
                 ut_vars, gr_vars, lsp_vars>>

\* lines 115-121: one pass of the loop over the tests
RunTest ==
  /\ pc = "test"
  /\ LET r == unit_test(group_module, test_nr)
     IN /\ df_res' = [df_res EXCEPT !.rows[file_nr + 1].U[test_nr + 1] =
                        [pt |-> r.points, return_0 |-> r.obj_val,
                         return_1 |-> r.setups, error |-> r.error]]
        /\ dynamic_score' = dynamic_score + r.points
  /\ test_nr' = test_nr + 1
  /\ log' = Append(log, Event("unit_test", file_nr, test_nr))
  /\ pc' = IF test_nr + 1 < NR_TESTS THEN "test" ELSE "finish"
  /\ UNCHANGED <<listing, files, file_nr, group_module, static_score, persisted,
                 ut_vars, gr_vars, lsp_vars>>

\* lines 123-128: Dynamic and Grade of the row, then the next file
FinishSubmission ==
  /\ pc = "finish"
  /\ df_res' = [df_res EXCEPT !.rows[file_nr + 1].Dynamic = dynamic_score,
                              !.rows[file_nr + 1].Grade = Grade(static_score, dynamic_score)]
  /\ file_nr' = file_nr + 1
  /\ log' = Append(log, Event("graded", file_nr, 0))
  /\ pc' = IF file_nr + 1 < Len(files) THEN "load" ELSE "report"
  /\ UNCHANGED <<listing, files, test_nr, group_module, static_score, dynamic_score,
                 persisted, ut_vars, gr_vars, lsp_vars>>

\* line 130: df_res.to_excel
WriteReport ==
  /\ pc = "report"
  /\ persisted' = persisted + 1
  /\ log' = Append(log, Event("to_excel", file_nr, 0))
  /\ pc' = "done"
  /\ UNCHANGED <<listing, files, df_res, file_nr, test_nr, group_module, static_score,
                 dynamic_score, ut_vars, gr_vars, lsp_vars>>

Next ==
  \/ StartRun
  \/ LoadSubmission
  \/ StaticScore
  \/ RunTest
  \/ FinishSubmission
  \/ WriteReport

Spec == Init /\ [][Next]_vars

(***************************************************************************)
(* Properties of a run of grade_submissions.                               *)
(***************************************************************************)
\* the positions of the log where unit_test ran an entry point that raised
RaisedTests ==
  {j \in 1..Len(log) :
     /\ log[j].op = "unit_test"
     /\ FileOf(files[log[j].file + 1]).lsp[log[j].test + 1].kind = "raise"}

\* C2: whenever an entry point raised during a test case, the result
\* recorded for that case has credit 0 and a non-empty error description,
\* and the run has gone on to the next test case or submission.
C2_EntryPointRaises ==
  \A j \in RaisedTests :
    LET cell == df_res.rows[log[j].file + 1].U[log[j].test + 1]
    IN /\ cell.pt = 0
       /\ cell.error.t = "str" /\ cell.error.s # ""
       /\ pc # "crashed"

\* C4: the file the harness is stored in is never among the submissions
\* to be loaded and graded, and the submissions are in ascending order.
C4_HarnessExcluded ==
  pc # "start" =>
    /\ \A j \in 1..Len(files) : files[j] \o DotPy # HarnessFile
    /\ \A j \in 1..Len(files) - 1 : StrLess(files[j], files[j + 1])

\* C5: a failed import of submission i ends the run: it is the last thing
\* the run does, no score, test result or grade is recorded for i, and the
\* report is not written.
C5_LoadFailureFatal ==
  \A j \in 1..Len(log) :
    log[j].op = "import failed" =>
      /\ j = Len(log)
      /\ pc = "crashed"
      /\ file_nr = log[j].file
      /\ persisted = 0
      /\ LET row == df_res.rows[file_nr + 1]
         IN /\ row.Grade = 0 /\ row.Static = 0 /\ row.Dynamic = 0
            /\ row.U = [k \in 1..NR_TESTS |-> NewCell]

\* a failed import with submissions graded before it and others after it
C5_Witness ==
  /\ pc = "crashed"
  /\ log[Len(log)].op = "import failed"
  /\ 0 < file_nr /\ file_nr + 1 < Len(files)

C8_PersistedOnce ==
  /\ persisted <= 1
  /\ (pc \in {"done", "crashed"} /\ \A j \in 1..Len(log) : log[j].op # "import failed") =>
       /\ persisted = 1
       /\ file_nr = Len(files)
       /\ Len(df_res.rows) = Len(files)

====
